---- MODULE Spec2Model ----
(***************************************************************************)
(* Model of the medical RAG pipeline: the segmenter (ChunkEmbedder), the   *)
(* PDF loader, the Pinecone gateway, the retriever, the answer composer    *)
(* (LLMChain) and the admin ingestion script.                              *)
(*                                                                         *)
(* A text is a sequence of characters in which a word character is a       *)
(* positive integer (the identity of the word it stands for), SP is a      *)
(* blank and NL a newline.  Each component has its own specification over  *)
(* its own variables; the variables of the other components stay put.      *)
(***************************************************************************)
EXTENDS Integers, Sequences, FiniteSets, TLC

VARIABLES
    \* Config (utils/config.py) and the process importing it
    pinecone_key, groq_key, chunk_size, chunk_overlap,
    \* one call of ChunkEmbedder._chunk_text
    ct_pc, ct_words, ct_start, ct_chunks,
    \* one call of ChunkEmbedder.create_chunks on a loaded PDF
    seg_pc, seg_doc, seg_pages, seg_chunks,
    \* LLMChain.generate_answer, one request after another
    ans_pc, question, docs, prompt, calls, result, n_requests, degraded_log,
    \* the records of the Pinecone index
    index,
    \* one run of admin/ingest_books.py
    ing_pc, ing_args, ing_doc, ing_index0, ing_error,
    ing_pages, ing_chunks, all_vectors, ing_sent, ing_calls,
    \* the RAGRetriever of the application and its retrieve calls
    r_pc, r_count, q_pc, q_query, q_arg, q_top_k, q_count, q_matches, results,
    \* a PineconeDB gateway used call after call
    gw_pc, gw_vectors, gw_batch_size, gw_i, gw_log, gw_index0, gw_error,
    gw_last, gw_populated,
    \* the Pinecone service's index list and the processes in PineconeDB()
    svc_index, svc_creates, su_pc, su_existing, su_created, su_query

cfgVars == <<pinecone_key, groq_key, chunk_size, chunk_overlap>>
ctVars  == <<ct_pc, ct_words, ct_start, ct_chunks>>
segVars == <<seg_pc, seg_doc, seg_pages, seg_chunks>>
ansVars == <<ans_pc, question, docs, prompt, calls, result, n_requests, degraded_log>>
ingVars == <<ing_pc, ing_args, ing_doc, ing_index0, ing_error,
             ing_pages, ing_chunks, all_vectors, ing_sent, ing_calls>>
qryVars == <<r_pc, r_count, q_pc, q_query, q_arg, q_top_k, q_count, q_matches, results>>
gwVars  == <<gw_pc, gw_vectors, gw_batch_size, gw_i, gw_log, gw_index0, gw_error,
             gw_last, gw_populated>>
suVars  == <<svc_index, svc_creates, su_pc, su_existing, su_created, su_query>>
vars    == <<cfgVars, ctVars, segVars, ansVars, index, ingVars, qryVars, gwVars, suVars>>

\* what the actions of one component leave alone
ctOthers  == <<cfgVars, segVars, ansVars, index, ingVars, qryVars, gwVars, suVars>>
segOthers == <<cfgVars, ctVars, ansVars, index, ingVars, qryVars, gwVars, suVars>>
ansOthers == <<cfgVars, ctVars, segVars, index, ingVars, qryVars, gwVars, suVars>>
ingOthers == <<cfgVars, ctVars, segVars, ansVars, qryVars, gwVars, suVars>>
qryOthers == <<cfgVars, ctVars, segVars, ansVars, ingVars, gwVars, suVars>>
gwOthers  == <<cfgVars, ctVars, segVars, ansVars, ingVars, qryVars, suVars>>
suOthers  == <<cfgVars, ctVars, segVars, ansVars, index, ingVars, qryVars, gwVars>>

\* a component that takes no part in a specification
CtIdle ==
    /\ ct_pc = "off"
    /\ ct_words = <<>>
    /\ ct_start = 0
    /\ ct_chunks = <<>>

SegIdle ==
    /\ seg_pc = "off"
    /\ seg_doc = <<>>
    /\ seg_pages = <<>>
    /\ seg_chunks = <<>>

AnsIdle ==
    /\ ans_pc = "off"
    /\ question = ""
    /\ docs = <<>>
    /\ prompt = <<>>
    /\ calls = <<>>
    /\ result = <<>>
    /\ n_requests = 0
    /\ degraded_log = {}

IngIdle ==
    /\ ing_pc = "off"
    /\ ing_args = <<>>
    /\ ing_doc = <<>>
    /\ ing_index0 = {}
    /\ ing_error = ""
    /\ ing_pages = <<>>
    /\ ing_chunks = <<>>
    /\ all_vectors = <<>>
    /\ ing_sent = 0
    /\ ing_calls = <<>>

QryIdle ==
    /\ r_pc = "off"
    /\ r_count = 0
    /\ q_pc = "off"
    /\ q_query = ""
    /\ q_arg = <<>>
    /\ q_top_k = 0
    /\ q_count = 0
    /\ q_matches = <<>>
    /\ results = <<>>

GwIdle ==
    /\ gw_pc = "off"
    /\ gw_vectors = <<>>
    /\ gw_batch_size = 0
    /\ gw_i = 0
    /\ gw_log = <<>>
    /\ gw_index0 = {}
    /\ gw_error = ""
    /\ gw_last = "none"
    /\ gw_populated = <<>>

SuIdle ==
    /\ svc_index = "off"
    /\ svc_creates = 0
    /\ su_pc = <<>>
    /\ su_existing = <<>>
    /\ su_created = <<>>
    /\ su_query = <<>>

----------------------------------------------------------------------------
\* Bounds of the model
MaxChunkSize == 8     \* _chunk_text alone: CHUNK_SIZE in 1..MaxChunkSize, CHUNK_OVERLAP in 0..MaxChunkSize
MaxSegChunkSize == 4  \* create_chunks: CHUNK_SIZE in 1..MaxSegChunkSize, CHUNK_OVERLAP in 0..MaxSegChunkSize
MaxWords     == 9     \* _chunk_text is run on paragraphs of 1..MaxWords words
MaxPages     == 2     \* pages of a PDF
MaxParas     == 2     \* paragraphs of a PDF, over all its pages
MaxDocs      == 4     \* retrieved documents handed to generate_answer
MaxRequests  == 2     \* requests one LLMChain answers
MaxVectors   == 3     \* records handed to one upsert_vectors call
MaxGateways  == 2     \* PineconeDB() constructions on one account that may overlap

\* Program constants
MIN_PARAGRAPH_WORDS == 20
CHUNK_SIZE == 1200
CHUNK_OVERLAP == 200
GROQ_MODEL_PRIMARY == "llama-3.3-70b-versatile"
GROQ_MODEL_FALLBACK == "llama-3.1-8b-instant"
TOP_REFERENCES == 3
SUMMARY_CHARS == 300
BATCH_SIZE == 64
UPSERT_BATCH_SIZE == 100
METADATA_TEXT_CHARS == 1000
TOP_K == 5

SP == 0
NL == 0 - 1
IsSpace(c) == c = SP \/ c = NL

Min(a, b) == IF a < b THEN a ELSE b
Max(a, b) == IF a > b THEN a ELSE b

----------------------------------------------------------------------------
\* Python helpers

\* seq[a:b] with Python's treatment of negative and out-of-range indices
PySlice(seq, a, b) ==
    LET n  == Len(seq)
        lo == IF a < 0 THEN Max(a + n, 0) ELSE Min(a, n)
        hi == IF b < 0 THEN Max(b + n, 0) ELSE Min(b, n)
    IN  SubSeq(seq, lo + 1, hi)

\* int(n * 0.75) for an integer n >= 0
ThreeQuarters(n) == (n * 3) \div 4

\* str.split(): the words of a text, in order (a word is one word character)
Words(text) == SelectSeq(text, LAMBDA c : ~IsSpace(c))

\* str.strip()
RECURSIVE LStrip(_)
LStrip(text) ==
    IF text # <<>> /\ IsSpace(Head(text)) THEN LStrip(Tail(text)) ELSE text
RECURSIVE RStrip(_)
RStrip(text) ==
    IF text # <<>> /\ IsSpace(text[Len(text)])
    THEN RStrip(SubSeq(text, 1, Len(text) - 1)) ELSE text
Strip(text) == RStrip(LStrip(text))

----------------------------------------------------------------------------
\* ChunkEmbedder._chunk_text

WordsPerChunk(size)    == ThreeQuarters(size)
WordsOverlap(overlap)  == ThreeQuarters(overlap)

\* ' '.join(words)
Join(words) ==
    IF words = <<>> THEN <<>>
    ELSE [i \in 1..(2 * Len(words) - 1) |->
             IF i % 2 = 1 THEN words[(i + 1) \div 2] ELSE SP]

\* the window cut at start: ' '.join(words[start:end])
ChunkWords(words, start, wpc) == Join(PySlice(words, start, start + wpc))

NextStartNoOverlap(start, wpc, wov) == start + wpc
\* start += (words_per_chunk - words_overlap)
NextStart(start, wpc, wov) == start + (wpc - wov)

\* the loop run to its end; it has an end only when the step is positive
RECURSIVE ChunkTextFrom(_, _, _, _)
ChunkTextFrom(words, start, wpc, wov) ==
    IF ~(start < Len(words)) THEN <<>>
    ELSE <<ChunkWords(words, start, wpc)>>
         \o ChunkTextFrom(words, NextStart(start, wpc, wov), wpc, wov)

ChunkText(words, size, overlap) ==
    ChunkTextFrom(words, 0, WordsPerChunk(size), WordsOverlap(overlap))

ChunkTextTerminates(size, overlap) ==
    NextStart(0, WordsPerChunk(size), WordsOverlap(overlap)) > 0

----------------------------------------------------------------------------
\* StreamingPDFLoader.load_pdf on a readable file: one page dictionary per page
\* whose text is not blank, numbered from 1 by its place in the file
RECURSIVE LoadPagesFrom(_, _)
LoadPagesFrom(doc, page_num) ==
    IF page_num >= Len(doc) THEN <<>>
    ELSE LET text == doc[page_num + 1]
         IN  (IF Strip(text) = <<>> THEN <<>>
              ELSE <<[page_number |-> page_num + 1,
                      text        |-> text,
                      char_count  |-> Len(text)]>>)
             \o LoadPagesFrom(doc, page_num + 1)

LoadPages(doc) == LoadPagesFrom(doc, 0)

----------------------------------------------------------------------------
\* ChunkEmbedder._split_into_paragraphs: re.split(r'\n\n+|\n\s+\n', text)

\* the last character of the separator matched at i, or 0 when none matches there
SeparatorEnd(text, i) ==
    LET n == Len(text)
    IN  IF text[i] # NL THEN 0
        ELSE IF i + 1 <= n /\ text[i + 1] = NL
        THEN \* \n\n+ : every newline that follows
             CHOOSE j \in (i + 1)..n :
                 /\ \A k \in i..j : text[k] = NL
                 /\ (j = n \/ text[j + 1] # NL)
        ELSE \* \n\s+\n : the last newline of the white space that follows
             LET ends == {j \in (i + 2)..n :
                             /\ text[j] = NL
                             /\ \A k \in (i + 1)..(j - 1) : IsSpace(text[k])}
             IN  IF ends = {} THEN 0
                 ELSE CHOOSE j \in ends : \A m \in ends : m <= j

\* the pieces of text[i..] between the separators, found from left to right
RECURSIVE SplitFrom(_, _)
SplitFrom(text, i) ==
    LET starts == {m \in i..Len(text) : SeparatorEnd(text, m) > 0}
    IN  IF starts = {} THEN <<SubSeq(text, i, Len(text))>>
        ELSE LET m == CHOOSE x \in starts : \A y \in starts : x <= y
             IN  <<SubSeq(text, i, m - 1)>>
                 \o SplitFrom(text, SeparatorEnd(text, m) + 1)

StripAll(pieces) == [i \in 1..Len(pieces) |-> Strip(pieces[i])]

\* [p.strip() for p in paragraphs if p.strip()]
SplitIntoParagraphs(text) ==
    SelectSeq(StripAll(SplitFrom(text, 1)), LAMBDA p : p # <<>>)

----------------------------------------------------------------------------
\* ChunkEmbedder.create_chunks

\* f"{book_name}_page{page_num}_para{para_num}_chunk{chunk_id}", kept as its four fields
ChunkIdString(book_name, page_num, para_num, chunk_id) ==
    <<book_name, page_num, para_num, chunk_id>>

MakeChunkIndexedByParagraph(book_name, page_num, para_num, chunk_id, chunk_text) ==
    [id       |-> ChunkIdString(book_name, page_num, para_num, para_num),
     text     |-> chunk_text,
     metadata |-> [book      |-> book_name,
                   page      |-> page_num,
                   paragraph |-> para_num,
                   chunk_id  |-> para_num]]

MakeChunk(book_name, page_num, para_num, chunk_id, chunk_text) ==
    [id       |-> ChunkIdString(book_name, page_num, para_num, chunk_id),
     text     |-> chunk_text,
     metadata |-> [book      |-> book_name,
                   page      |-> page_num,
                   paragraph |-> para_num,
                   chunk_id  |-> chunk_id]]

SkipParagraphOffByOne(paragraph) == Len(Words(paragraph)) <= MIN_PARAGRAPH_WORDS
\* if len(paragraph.split()) < 20: continue
SkipParagraph(paragraph) == Len(Words(paragraph)) < MIN_PARAGRAPH_WORDS

\* for chunk_text in para_chunks: chunks.append(...); chunk_id += 1
\* (the chunks of para_chunks from the k-th on, each with the next chunk_id)
AppendChunks(acc, para_chunks, k, book_name, page_num, para_num) ==
    [chunks   |-> acc.chunks \o
                  [j \in 1..(Len(para_chunks) + 1 - k) |->
                      MakeChunk(book_name, page_num, para_num,
                                acc.chunk_id + (j - 1), para_chunks[k + j - 1])],
     chunk_id |-> acc.chunk_id + (Len(para_chunks) + 1 - k)]

\* for para_num, paragraph in enumerate(paragraphs, 1)
RECURSIVE ParagraphLoop(_, _, _, _, _, _, _)
ParagraphLoop(acc, paragraphs, para_num, book_name, page_num, size, overlap) ==
    IF para_num > Len(paragraphs) THEN acc
    ELSE LET paragraph == paragraphs[para_num]
             next == IF SkipParagraph(paragraph) THEN acc
                     ELSE AppendChunks(acc, ChunkText(Words(paragraph), size, overlap),
                                       1, book_name, page_num, para_num)
         IN  ParagraphLoop(next, paragraphs, para_num + 1, book_name, page_num,
                           size, overlap)

\* for page in pages
RECURSIVE PageLoop(_, _, _, _, _, _)
PageLoop(acc, pages, p, book_name, size, overlap) ==
    IF p > Len(pages) THEN acc
    ELSE PageLoop(ParagraphLoop(acc, SplitIntoParagraphs(pages[p].text), 1,
                                book_name, pages[p].page_number, size, overlap),
                  pages, p + 1, book_name, size, overlap)

CreateChunks(pages, book_name, size, overlap) ==
    PageLoop([chunks |-> <<>>, chunk_id |-> 0], pages, 1, book_name, size, overlap).chunks

\* some paragraph reaches _chunk_text
ReachesChunkText(pages) ==
    \E p \in 1..Len(pages) :
        LET paragraphs == SplitIntoParagraphs(pages[p].text)
        IN  \E n \in 1..Len(paragraphs) : ~SkipParagraph(paragraphs[n])

----------------------------------------------------------------------------
\* Config.validate, run when utils.config is imported: it checks the two API
\* keys and nothing else
ConfigValidate ==
    /\ ct_pc = "import"
    /\ \/ /\ ~pinecone_key
          /\ ct_pc' = "config_error"
       \/ /\ pinecone_key
          /\ ~groq_key
          /\ ct_pc' = "config_error"
       \/ /\ pinecone_key
          /\ groq_key
          /\ ct_pc' = "ready"
    /\ UNCHANGED <<ctOthers, ct_words, ct_start, ct_chunks>>

\* _chunk_text(text) is entered: words = text.split(), chunks = [], start = 0
ChunkTextCall ==
    /\ ct_pc = "ready"
    /\ ct_pc' = "loop"
    /\ ct_start' = 0
    /\ ct_chunks' = <<>>
    /\ UNCHANGED <<ctOthers, ct_words>>

\* one iteration of  while start < len(words)
\* (a loop that does not end is followed for MaxWords + 1 iterations)
ChunkTextLoop ==
    /\ ct_pc = "loop"
    /\ ct_start < Len(ct_words)
    /\ Len(ct_chunks) <= MaxWords
    /\ ct_chunks' = Append(ct_chunks,
                           ChunkWords(ct_words, ct_start, WordsPerChunk(chunk_size)))
    /\ ct_start' = NextStart(ct_start, WordsPerChunk(chunk_size),
                             WordsOverlap(chunk_overlap))
    /\ UNCHANGED <<ctOthers, ct_pc, ct_words>>

\* the loop condition fails: return chunks
ChunkTextReturn ==
    /\ ct_pc = "loop"
    /\ ~(ct_start < Len(ct_words))
    /\ ct_pc' = "returned"
    /\ UNCHANGED <<ctOthers, ct_words, ct_start, ct_chunks>>

----------------------------------------------------------------------------
\* Segmenting a PDF: load_pdf, then create_chunks

BookName == "TestBook"

\* The paragraphs a PDF is written with: a word count, just below, at and just
\* above the threshold of create_chunks
ParaLens == {MIN_PARAGRAPH_WORDS - 1, MIN_PARAGRAPH_WORDS, MIN_PARAGRAPH_WORDS + 1}

\* What stands between two paragraphs of a page: a blank line, a line of blanks,
\* or a single line break (which does not end a paragraph)
Separators == {<<NL, NL>>, <<NL, SP, NL>>, <<NL>>}

\* lens[from..to] written as text, the words numbered on from first
RECURSIVE WriteParagraphs(_, _, _, _, _)
WriteParagraphs(lens, from, to, first, sep) ==
    IF from > to THEN <<>>
    ELSE Join([i \in 1..lens[from] |-> first + i - 1])
         \o (IF from < to THEN sep ELSE <<NL>>)
         \o WriteParagraphs(lens, from + 1, to, first + lens[from], sep)

\* The PDF whose paragraphs have the word counts lens, paragraph i on page pg[i];
\* no word of a page is a word of another page
WriteDoc(n, lens, pg, sep) ==
    [p \in 1..n |->
        LET mine == {i \in DOMAIN lens : pg[i] = p}
        IN  IF mine = {} THEN <<NL>>
            ELSE LET lo == CHOOSE i \in mine : \A j \in mine : i <= j
                     hi == CHOOSE i \in mine : \A j \in mine : j <= i
                 IN  WriteParagraphs(lens, lo, hi, 1000 * (p - 1) + 1, sep)]

LoadPdf ==
    /\ seg_pc = "start"
    /\ seg_pages' = LoadPages(seg_doc)
    /\ seg_pc' = "loaded"
    /\ UNCHANGED <<segOthers, seg_doc, seg_chunks>>

\* create_chunks runs to its return
CreateChunksReturn ==
    /\ seg_pc = "loaded"
    /\ ReachesChunkText(seg_pages) => ChunkTextTerminates(chunk_size, chunk_overlap)
    /\ seg_chunks' = CreateChunks(seg_pages, BookName, chunk_size, chunk_overlap)
    /\ seg_pc' = "done"
    /\ UNCHANGED <<segOthers, seg_doc, seg_pages>>

\* create_chunks enters a _chunk_text whose loop does not end
CreateChunksHang ==
    /\ seg_pc = "loaded"
    /\ ReachesChunkText(seg_pages)
    /\ ~ChunkTextTerminates(chunk_size, chunk_overlap)
    /\ seg_pc' = "hung"
    /\ UNCHANGED <<segOthers, seg_doc, seg_pages, seg_chunks>>

InitSegment ==
    /\ pinecone_key = TRUE
    /\ groq_key = TRUE
    /\ chunk_size \in (1..MaxSegChunkSize) \cup {CHUNK_SIZE}
    /\ chunk_overlap \in (0..MaxSegChunkSize) \cup {CHUNK_OVERLAP}
    /\ CtIdle
    /\ seg_pc = "start"
    /\ \E n \in 1..MaxPages, k \in 0..MaxParas :
          \E lens \in [1..k -> ParaLens], pg \in [1..k -> 1..n], sep \in Separators :
              /\ \A i, j \in 1..k : i <= j => pg[i] <= pg[j]
              /\ seg_doc = WriteDoc(n, lens, pg, sep)
    /\ seg_pages = <<>>
    /\ seg_chunks = <<>>
    /\ AnsIdle
    /\ GwIdle
    /\ SuIdle
    /\ index = {}
    /\ IngIdle
    /\ QryIdle

NextSegment ==
    \/ LoadPdf
    \/ CreateChunksReturn
    \/ CreateChunksHang

SpecSegment == InitSegment /\ [][NextSegment]_vars

InitChunkText ==
    /\ pinecone_key \in BOOLEAN
    /\ groq_key \in BOOLEAN
    /\ chunk_size \in (1..MaxChunkSize) \cup {CHUNK_SIZE}
    /\ chunk_overlap \in (0..MaxChunkSize) \cup {CHUNK_OVERLAP}
    /\ ct_pc = "import"
    /\ \E n \in 1..MaxWords : ct_words = [i \in 1..n |-> i]
    /\ ct_start = 0
    /\ ct_chunks = <<>>
    /\ SegIdle
    /\ AnsIdle
    /\ GwIdle
    /\ SuIdle
    /\ index = {}
    /\ IngIdle
    /\ QryIdle

NextChunkText ==
    \/ ConfigValidate
    \/ ChunkTextCall
    \/ ChunkTextLoop
    \/ ChunkTextReturn

SpecChunkText == InitChunkText /\ [][NextChunkText]_vars

----------------------------------------------------------------------------
\* LLMChain (rag/llm_chain.py).  A document text is a sequence of characters,
\* a response of the generation service a sequence of tokens: a section
\* marker or a word.

PrimaryModel == GROQ_MODEL_PRIMARY

FallbackModelSameAsPrimary == GROQ_MODEL_PRIMARY
\* self.fallback_model = Config.GROQ_MODEL_FALLBACK
FallbackModel == GROQ_MODEL_FALLBACK

\* _build_context: one labelled block per document, in the order given
BuildContext(ds) ==
    [i \in 1..Len(ds) |->
        [source |-> i, book |-> ds[i].book, page |-> ds[i].page, text |-> ds[i].text]]

\* _create_prompt: the fixed template around the context and the question
CreatePrompt(q, context) == <<[context |-> context, question |-> q]>>

\* doc['text'][:300] + "..." if len(doc['text']) > 300 else doc['text']
Summary(text) ==
    IF Len(text) > SUMMARY_CHARS
    THEN SubSeq(text, 1, SUMMARY_CHARS) \o <<".", ".", ".">>
    ELSE text

\* _create_references: docs[:3], each as book, page, paragraph, summary
CreateReferences(ds) ==
    [i \in 1..Min(Len(ds), TOP_REFERENCES) |->
        [book      |-> ds[i].book,
         page      |-> ds[i].page,
         paragraph |-> ds[i].paragraph,
         summary   |-> Summary(ds[i].text)]]

\* str.split(marker): the pieces of the token sequence between the markers
RECURSIVE SplitOn(_, _)
SplitOn(tokens, marker) ==
    LET at == {i \in 1..Len(tokens) : tokens[i] = marker}
    IN  IF at = {} THEN <<tokens>>
        ELSE LET m == CHOOSE i \in at : \A j \in at : i <= j
             IN  <<SubSeq(tokens, 1, m - 1)>>
                 \o SplitOn(SubSeq(tokens, m + 1, Len(tokens)), marker)

\* str.replace(marker, "")
Remove(tokens, marker) == SelectSeq(tokens, LAMBDA t : t # marker)

NoneText == <<"None">>

\* _parse_response: the sections of the response; a response that cannot be
\* split (message.content is None) is returned raw by the except branch
ParseResponse(response, ds) ==
    IF response.none
    THEN [answer      |-> NoneText,
          explanation |-> <<"Response generated successfully but formatting may vary.">>,
          references  |-> CreateReferences(ds)]
    ELSE LET sections    == SplitOn(response.text, "TEACHER EXPLANATION:")
             answer      == Remove(sections[1], "ANSWER:")
             rest        == IF Len(sections) > 1 THEN sections[2] ELSE <<>>
             parts       == SplitOn(rest, "SIMPLIFIED VERSION:")
             explanation == parts[1]
             simplified  == IF Len(parts) > 1 THEN parts[2] ELSE <<>>
         IN  [answer      |-> answer,
              explanation |-> IF simplified # <<>>
                              THEN explanation \o <<"**In Simple Terms:**">> \o simplified
                              ELSE explanation,
              references  |-> CreateReferences(ds)]

DegradedResponseFixedText(e2, ds) ==
    [answer      |-> <<"I found relevant information but couldn't generate a complete answer.">>,
     explanation |-> <<"Please try rephrasing your question or check your Groq API key.">>,
     references  |-> CreateReferences(ds)]
DegradedResponseNoReferences(e2, ds) ==
    [answer      |-> <<"I found relevant information but couldn't generate a complete answer. Error: ", e2>>,
     explanation |-> <<"Please try rephrasing your question or check your Groq API key.">>,
     references  |-> <<>>]
\* the response returned when the fallback call raised e2
DegradedResponse(e2, ds) ==
    [answer      |-> <<"I found relevant information but couldn't generate a complete answer. Error: ", e2>>,
     explanation |-> <<"Please try rephrasing your question or check your Groq API key.">>,
     references  |-> CreateReferences(ds)]

\* What the environment supplies
Questions == {"q1", "q2"}

DocPool ==
    { [id |-> ChunkIdString("A", 1, 1, 0), score |-> 9, text |-> <<"M", "I">>,
       book |-> "A", page |-> 1, paragraph |-> 1],
      [id |-> ChunkIdString("B", 7, 2, 5), score |-> 8, text |-> <<"m", "i">>,
       book |-> "B", page |-> 7, paragraph |-> 2],
      [id |-> ChunkIdString("A", 1, 1, 1), score |-> 8, text |-> <<"M", "I">>,
       book |-> "A", page |-> 1, paragraph |-> 1],
      [id |-> ChunkIdString("A", 2, 1, 2), score |-> 5, text |-> <<"e", "c", "g">>,
       book |-> "A", page |-> 2, paragraph |-> 1] }

\* lists of documents with distinct ids, as a query returns them
DocLists ==
    UNION {{ds \in [1..n -> DocPool] : \A i, j \in 1..n : ds[i] = ds[j] => i = j}
           : n \in 0..Min(MaxDocs, Cardinality(DocPool))}

Responses ==
    { [none |-> FALSE,
       text |-> <<"ANSWER:", "a", "TEACHER EXPLANATION:", "e", "SIMPLIFIED VERSION:", "s">>],
      [none |-> FALSE, text |-> <<"ANSWER:", "a", "TEACHER EXPLANATION:", "e">>],
      [none |-> FALSE, text |-> <<"a">>],
      [none |-> TRUE, text |-> <<>>] }

Errors == {"timeout", "rate limit"}

\* generate_answer(question, retrieved_docs) up to its first call of the service
GenerateAnswer ==
    /\ ans_pc = "idle"
    /\ n_requests < MaxRequests
    /\ \E q \in Questions, ds \in DocLists :
          /\ question' = q
          /\ docs' = ds
          /\ prompt' = CreatePrompt(q, BuildContext(ds))
    /\ calls' = <<>>
    /\ result' = <<>>
    /\ n_requests' = n_requests + 1
    /\ ans_pc' = "primary"
    /\ UNCHANGED <<ansOthers, degraded_log>>

\* _call_groq(prompt, self.model) returns: parse and return
PrimaryReturns ==
    /\ ans_pc = "primary"
    /\ \E r \in Responses :
          result' = ParseResponse(r, docs)
    /\ calls' = Append(calls, [model |-> PrimaryModel, ok |-> TRUE, error |-> ""])
    /\ ans_pc' = "done"
    /\ UNCHANGED <<ansOthers, question, docs, prompt, n_requests, degraded_log>>

\* _call_groq(prompt, self.model) raises: go on to the fallback model
PrimaryRaises ==
    /\ ans_pc = "primary"
    /\ \E e \in Errors :
          calls' = Append(calls, [model |-> PrimaryModel, ok |-> FALSE, error |-> e])
    /\ ans_pc' = "fallback"
    /\ UNCHANGED <<ansOthers, question, docs, prompt, result, n_requests, degraded_log>>

\* _call_groq(prompt, self.fallback_model) returns: parse and return
FallbackReturns ==
    /\ ans_pc = "fallback"
    /\ \E r \in Responses :
          result' = ParseResponse(r, docs)
    /\ calls' = Append(calls, [model |-> FallbackModel, ok |-> TRUE, error |-> ""])
    /\ ans_pc' = "done"
    /\ UNCHANGED <<ansOthers, question, docs, prompt, n_requests, degraded_log>>

\* _call_groq(prompt, self.fallback_model) raises e2: return the error response
FallbackRaises ==
    /\ ans_pc = "fallback"
    /\ \E e2 \in Errors :
          /\ calls' = Append(calls, [model |-> FallbackModel, ok |-> FALSE, error |-> e2])
          /\ result' = DegradedResponse(e2, docs)
          /\ degraded_log' = degraded_log \cup {DegradedResponse(e2, docs).answer}
    /\ ans_pc' = "degraded"
    /\ UNCHANGED <<ansOthers, question, docs, prompt, n_requests>>

\* the caller has the result; the chain is free for the next request
AnswerTaken ==
    /\ ans_pc \in {"done", "degraded"}
    /\ ans_pc' = "idle"
    /\ UNCHANGED <<ansOthers, question, docs, prompt, calls, result, n_requests,
                   degraded_log>>

InitAnswer ==
    /\ pinecone_key = TRUE
    /\ groq_key = TRUE
    /\ chunk_size = CHUNK_SIZE
    /\ chunk_overlap = CHUNK_OVERLAP
    /\ CtIdle
    /\ SegIdle
    /\ GwIdle
    /\ SuIdle
    /\ ans_pc = "idle"
    /\ question = ""
    /\ docs = <<>>
    /\ prompt = <<>>
    /\ calls = <<>>
    /\ result = <<>>
    /\ n_requests = 0
    /\ degraded_log = {}
    /\ index = {}
    /\ IngIdle
    /\ QryIdle

NextAnswer ==
    \/ GenerateAnswer
    \/ PrimaryReturns
    \/ PrimaryRaises
    \/ FallbackReturns
    \/ FallbackRaises
    \/ AnswerTaken

SpecAnswer == InitAnswer /\ [][NextAnswer]_vars

----------------------------------------------------------------------------
\* ChunkEmbedder.embed_batch and the Pinecone gateway (vectorstore/pinecone_db.py).
\* The index is the set of its records; no two have one id.

\* self.model.encode: a vector that is a function of the text alone
Embedding(text) == <<"embedding", text>>

\* embed_batch: the record of one chunk
VectorRecord(chunk) ==
    [id       |-> chunk.id,
     values   |-> Embedding(chunk.text),
     metadata |-> [book      |-> chunk.metadata.book,
                   page      |-> chunk.metadata.page,
                   paragraph |-> chunk.metadata.paragraph,
                   chunk_id  |-> chunk.metadata.chunk_id,
                   text      |-> PySlice(chunk.text, 0, METADATA_TEXT_CHARS)]]

EmbedBatchReversed(batch) ==
    [i \in 1..Len(batch) |-> VectorRecord(batch[Len(batch) + 1 - i])]

\* embed_batch: one vector record per chunk, in order
EmbedBatch(batch) ==
    [i \in 1..Len(batch) |-> VectorRecord(batch[i])]

\* index.upsert(vectors=batch): a record replaces the record of its id, the
\* last record of an id in the batch wins
UpsertBatch(idx, batch) ==
    {r \in idx : \A i \in 1..Len(batch) : batch[i].id # r.id}
    \cup {batch[i] : i \in {k \in 1..Len(batch) :
                               \A j \in (k + 1)..Len(batch) : batch[j].id # batch[k].id}}

DeleteAllKeepsRecords(idx) == idx
\* index.delete(delete_all=True)
DeleteAll(idx) == {}

\* get_index_stats()['total_vector_count']
TotalVectorCount(idx) == Cardinality(idx)

CheckIfPopulatedAlways(idx) == TotalVectorCount(idx) >= 0
\* check_if_populated: count > 0
CheckIfPopulated(idx) == TotalVectorCount(idx) > 0

\* The similarity the index gives a record for a query
QueryScore(q, r) == IF q = "q1" THEN r.metadata.page ELSE 9 - r.metadata.page

\* index.query(vector, top_k, include_metadata=True)['matches']: the top_k
\* records nearest to the query, best first (any order among equal scores)
QueryMatches(idx, q, top_k) ==
    LET n == Min(top_k, Cardinality(idx))
    IN  {m \in [1..n -> idx] :
            /\ \A i, j \in 1..n : m[i] = m[j] => i = j
            /\ \A i, j \in 1..n : i <= j => QueryScore(q, m[i]) >= QueryScore(q, m[j])
            /\ \A r \in idx :
                   (\A i \in 1..n : m[i] # r)
                       => \A i \in 1..n : QueryScore(q, m[i]) >= QueryScore(q, r)}

FormatMatchesReversed(q, matches) ==
    [i \in 1..Len(matches) |->
        [id        |-> matches[Len(matches) + 1 - i].id,
         score     |-> QueryScore(q, matches[Len(matches) + 1 - i]),
         text      |-> matches[Len(matches) + 1 - i].metadata.text,
         book      |-> matches[Len(matches) + 1 - i].metadata.book,
         page      |-> matches[Len(matches) + 1 - i].metadata.page,
         paragraph |-> matches[Len(matches) + 1 - i].metadata.paragraph]]

\* PineconeDB.query: each match as a document, in the order of the matches
FormatMatches(q, matches) ==
    [i \in 1..Len(matches) |->
        [id        |-> matches[i].id,
         score     |-> QueryScore(q, matches[i]),
         text      |-> matches[i].metadata.text,
         book      |-> matches[i].metadata.book,
         page      |-> matches[i].metadata.page,
         paragraph |-> matches[i].metadata.paragraph]]

\* if top_k is None: top_k = Config.TOP_K   (no argument is <<>>)
EffectiveTopK(arg) == IF arg = <<>> THEN TOP_K ELSE arg[1]

----------------------------------------------------------------------------
\* admin/ingest_books.py: main and ingest_book

\* A record as an earlier ingestion left it
StoredRecord(book_name, page_num, para_num, chunk_id, words) ==
    EmbedBatch(<<MakeChunk(book_name, page_num, para_num, chunk_id, words)>>)[1]

\* What the index holds before a run: nothing, a record of another book, or
\* a record of this book under the id of its first chunk
InitialIndexes ==
    { {},
      {StoredRecord("OldBook", 3, 1, 0, <<7, SP, 8>>)},
      {StoredRecord("OldBook", 3, 1, 0, <<7, SP, 8>>),
       StoredRecord(BookName, 1, 1, 0, <<9>>)} }

FileKinds == {"ok", "missing", "oversized", "unparseable"}

\* CHUNK_SIZE and CHUNK_OVERLAP: the values of config.py, and the smallest
\* chunks (one word each, no overlap)
IngestConfigs == {<<CHUNK_SIZE, CHUNK_OVERLAP>>, <<2, 0>>}

\* The PDFs of a readable file; the first has, on three pages, more words
\* than embed_batch is given chunks at a time
IngestDocs ==
    { WriteDoc(3, [i \in 1..3 |-> (BATCH_SIZE + 2) \div 3], <<1, 2, 3>>, <<NL, NL>>),
      WriteDoc(1, <<MIN_PARAGRAPH_WORDS>>, <<1>>, <<NL, NL>>),
      WriteDoc(2, <<MIN_PARAGRAPH_WORDS + 1, MIN_PARAGRAPH_WORDS - 1>>, <<1, 2>>, <<NL, NL>>),
      WriteDoc(1, <<MIN_PARAGRAPH_WORDS - 1>>, <<1>>, <<NL, NL>>) }

ConfirmReplies == {"yes", "YES", "no", "y", ""}

LowerReplyFirstLetter(reply) == IF reply \in {"YES", "y"} THEN "yes" ELSE reply
\* str.lower() on the replies
LowerReply(reply) == IF reply = "YES" THEN "yes" ELSE reply

\* the exception load_pdf raises for a file it cannot load
LoadError(kind) ==
    CASE kind = "missing"     -> "FileNotFoundError"
      [] kind = "oversized"   -> "ValueError"
      [] kind = "unparseable" -> "Exception"

InputErrors == {"FileNotFoundError", "ValueError", "Exception"}

\* main: the arguments are parsed and the gateway is built
MainStart ==
    /\ ing_pc = "main"
    /\ ing_pc' = IF ing_args.rebuild THEN "confirm" ELSE "load"
    /\ UNCHANGED <<ingOthers, ing_calls, index, ing_args, ing_doc, ing_index0, ing_error,
                   ing_pages, ing_chunks, all_vectors, ing_sent>>

\* --rebuild, answered yes: delete_all
RebuildConfirmed ==
    /\ ing_pc = "confirm"
    /\ \E reply \in ConfirmReplies :
          /\ LowerReply(reply) = "yes"
          /\ ing_args' = [ing_args EXCEPT !.reply = reply]
    /\ index' = DeleteAll(index)
    /\ ing_pc' = "load"
    /\ ing_calls' = Append(ing_calls, "delete_all")
    /\ UNCHANGED <<ingOthers, ing_doc, ing_index0, ing_error,
                   ing_pages, ing_chunks, all_vectors, ing_sent>>

\* --rebuild, answered yes: delete_all raises the error of the service
RebuildDeleteRaises ==
    /\ ing_pc = "confirm"
    /\ \E reply \in ConfirmReplies :
          /\ LowerReply(reply) = "yes"
          /\ ing_args' = [ing_args EXCEPT !.reply = reply]
    /\ ing_error' = "ServiceError"
    /\ ing_pc' = "failed"
    /\ ing_calls' = Append(ing_calls, "delete_all")
    /\ UNCHANGED <<ingOthers, index, ing_doc, ing_index0,
                   ing_pages, ing_chunks, all_vectors, ing_sent>>

\* --rebuild, any other answer: return
RebuildCancelled ==
    /\ ing_pc = "confirm"
    /\ \E reply \in ConfirmReplies :
          /\ LowerReply(reply) # "yes"
          /\ ing_args' = [ing_args EXCEPT !.reply = reply]
    /\ ing_pc' = "cancelled"
    /\ UNCHANGED <<ingOthers, ing_calls, index, ing_doc, ing_index0, ing_error,
                   ing_pages, ing_chunks, all_vectors, ing_sent>>

\* ingest_book, step 1: load_pdf raises; the error is printed and raised again
LoadPdfRaises ==
    /\ ing_pc = "load"
    /\ ing_args.pdf # "ok"
    /\ ing_error' = LoadError(ing_args.pdf)
    /\ ing_pc' = "failed"
    /\ UNCHANGED <<ingOthers, ing_calls, index, ing_args, ing_doc, ing_index0,
                   ing_pages, ing_chunks, all_vectors, ing_sent>>

\* ingest_book, step 1: load_pdf returns the pages
LoadPdfReturns ==
    /\ ing_pc = "load"
    /\ ing_args.pdf = "ok"
    /\ ing_pages' = LoadPages(ing_doc)
    /\ ing_pc' = "chunk"
    /\ UNCHANGED <<ingOthers, ing_calls, index, ing_args, ing_doc, ing_index0, ing_error,
                   ing_chunks, all_vectors, ing_sent>>

\* ingest_book, step 2: create_chunks
IngestCreateChunks ==
    /\ ing_pc = "chunk"
    /\ ReachesChunkText(ing_pages) => ChunkTextTerminates(chunk_size, chunk_overlap)
    /\ ing_chunks' = CreateChunks(ing_pages, ing_args.name, chunk_size, chunk_overlap)
    /\ ing_pc' = "embed"
    /\ UNCHANGED <<ingOthers, ing_calls, index, ing_args, ing_doc, ing_index0, ing_error,
                   ing_pages, all_vectors, ing_sent>>

\* ingest_book, step 3: one batch of BATCH_SIZE chunks is embedded
EmbedBatchReturns ==
    /\ ing_pc = "embed"
    /\ Len(all_vectors) < Len(ing_chunks)
    /\ all_vectors' = all_vectors
           \o EmbedBatch(PySlice(ing_chunks, Len(all_vectors),
                                 Len(all_vectors) + BATCH_SIZE))
    /\ UNCHANGED <<ingOthers, ing_calls, index, ing_pc, ing_args, ing_doc, ing_index0, ing_error,
                   ing_pages, ing_chunks, ing_sent>>

\* ingest_book, step 3: embed_batch raises
EmbedBatchRaises ==
    /\ ing_pc = "embed"
    /\ Len(all_vectors) < Len(ing_chunks)
    /\ ing_error' = "EmbeddingError"
    /\ ing_pc' = "failed"
    /\ UNCHANGED <<ingOthers, ing_calls, index, ing_args, ing_doc, ing_index0,
                   ing_pages, ing_chunks, all_vectors, ing_sent>>

\* ingest_book, step 3: every batch is embedded
EmbedDone ==
    /\ ing_pc = "embed"
    /\ Len(all_vectors) >= Len(ing_chunks)
    /\ ing_pc' = "upsert"
    /\ UNCHANGED <<ingOthers, ing_calls, index, ing_args, ing_doc, ing_index0, ing_error,
                   ing_pages, ing_chunks, all_vectors, ing_sent>>

\* upsert_vectors: one batch of batch_size records is sent
UpsertBatchReturns ==
    /\ ing_pc = "upsert"
    /\ ing_sent < Len(all_vectors)
    /\ index' = UpsertBatch(index, PySlice(all_vectors, ing_sent,
                                           ing_sent + UPSERT_BATCH_SIZE))
    /\ ing_sent' = Min(ing_sent + UPSERT_BATCH_SIZE, Len(all_vectors))
    /\ ing_calls' = Append(ing_calls, "upsert")
    /\ UNCHANGED <<ingOthers, ing_pc, ing_args, ing_doc, ing_index0, ing_error,
                   ing_pages, ing_chunks, all_vectors>>

\* upsert_vectors: index.upsert raises
UpsertBatchRaises ==
    /\ ing_pc = "upsert"
    /\ ing_sent < Len(all_vectors)
    /\ ing_error' = "ServiceError"
    /\ ing_pc' = "failed"
    /\ ing_calls' = Append(ing_calls, "upsert")
    /\ UNCHANGED <<ingOthers, index, ing_args, ing_doc, ing_index0,
                   ing_pages, ing_chunks, all_vectors, ing_sent>>

\* upsert_vectors returns
UpsertDone ==
    /\ ing_pc = "upsert"
    /\ ing_sent >= Len(all_vectors)
    /\ ing_pc' = "stats"
    /\ UNCHANGED <<ingOthers, ing_calls, index, ing_args, ing_doc, ing_index0, ing_error,
                   ing_pages, ing_chunks, all_vectors, ing_sent>>

\* ingest_book, step 5: get_index_stats returns
GetStatsReturns ==
    /\ ing_pc = "stats"
    /\ ing_pc' = "done"
    /\ UNCHANGED <<ingOthers, ing_calls, index, ing_args, ing_doc, ing_index0, ing_error,
                   ing_pages, ing_chunks, all_vectors, ing_sent>>

\* ingest_book, step 5: get_index_stats raises
GetStatsRaises ==
    /\ ing_pc = "stats"
    /\ ing_error' = "ServiceError"
    /\ ing_pc' = "failed"
    /\ UNCHANGED <<ingOthers, ing_calls, index, ing_args, ing_doc, ing_index0,
                   ing_pages, ing_chunks, all_vectors, ing_sent>>

InitIngest ==
    /\ pinecone_key = TRUE
    /\ groq_key = TRUE
    /\ \E cfg \in IngestConfigs :
          /\ chunk_size = cfg[1]
          /\ chunk_overlap = cfg[2]
    /\ CtIdle
    /\ SegIdle
    /\ AnsIdle
    /\ QryIdle
    /\ GwIdle
    /\ SuIdle
    /\ index \in InitialIndexes
    /\ ing_pc = "main"
    /\ \E kind \in FileKinds, rebuild \in BOOLEAN :
          ing_args = [pdf |-> kind, name |-> BookName, rebuild |-> rebuild, reply |-> ""]
    /\ ing_doc \in IngestDocs
    /\ ing_index0 = index
    /\ ing_error = ""
    /\ ing_pages = <<>>
    /\ ing_chunks = <<>>
    /\ all_vectors = <<>>
    /\ ing_sent = 0
    /\ ing_calls = <<>>

NextIngest ==
    \/ MainStart
    \/ RebuildConfirmed
    \/ RebuildDeleteRaises
    \/ RebuildCancelled
    \/ LoadPdfRaises
    \/ LoadPdfReturns
    \/ IngestCreateChunks
    \/ EmbedBatchReturns
    \/ EmbedBatchRaises
    \/ EmbedDone
    \/ UpsertBatchReturns
    \/ UpsertBatchRaises
    \/ UpsertDone
    \/ GetStatsReturns
    \/ GetStatsRaises

SpecIngest == InitIngest /\ [][NextIngest]_vars

----------------------------------------------------------------------------
\* rag/retriever.py: the application's RAGRetriever, beside an administrator
\* who uses the gateway on the same index

RecordPool ==
    { StoredRecord("A", 1, 1, 0, <<1, SP, 2>>),
      StoredRecord("A", 2, 1, 1, <<3>>),
      StoredRecord("B", 2, 1, 0, <<4>>) }

Queries == {"q1", "q2"}

TopKArgs == {<<>>, <<1>>, <<2>>}

\* RAGRetriever(): the embedder and the gateway are built, then the index is
\* checked; an empty index raises ValueError
ConstructRetriever ==
    /\ r_pc = "none"
    /\ r_count' = TotalVectorCount(index)
    /\ r_pc' = IF CheckIfPopulated(index) THEN "constructed" ELSE "failed"
    /\ UNCHANGED <<qryOthers, index, q_pc, q_query, q_arg, q_top_k, q_count,
                   q_matches, results>>

\* retrieve(query, top_k): embed the query, query the gateway, return its documents
Retrieve ==
    /\ r_pc = "constructed"
    /\ \E q \in Queries, arg \in TopKArgs :
          /\ q_query' = q
          /\ q_arg' = arg
          /\ q_top_k' = EffectiveTopK(arg)
          /\ \E m \in QueryMatches(index, q, EffectiveTopK(arg)) :
                 /\ q_matches' = m
                 /\ results' = FormatMatches(q, m)
    /\ q_count' = TotalVectorCount(index)
    /\ q_pc' = "returned"
    /\ UNCHANGED <<qryOthers, index, r_pc, r_count>>

\* the administrator: delete_all
GatewayDeleteAll ==
    /\ index # {}
    /\ index' = DeleteAll(index)
    /\ UNCHANGED <<qryOthers, qryVars>>

\* the administrator: upsert_vectors of one record
GatewayUpsert ==
    /\ \E r \in RecordPool : index' = UpsertBatch(index, <<r>>)
    /\ index' # index
    /\ UNCHANGED <<qryOthers, qryVars>>

InitQuery ==
    /\ pinecone_key = TRUE
    /\ groq_key = TRUE
    /\ chunk_size = CHUNK_SIZE
    /\ chunk_overlap = CHUNK_OVERLAP
    /\ CtIdle
    /\ SegIdle
    /\ AnsIdle
    /\ IngIdle
    /\ GwIdle
    /\ SuIdle
    /\ index \in SUBSET RecordPool
    /\ r_pc = "none"
    /\ r_count = 0
    /\ q_pc = "idle"
    /\ q_query = ""
    /\ q_arg = <<>>
    /\ q_top_k = 0
    /\ q_count = 0
    /\ q_matches = <<>>
    /\ results = <<>>

NextQuery ==
    \/ ConstructRetriever
    \/ Retrieve
    \/ GatewayDeleteAll
    \/ GatewayUpsert

SpecQuery == InitQuery /\ [][NextQuery]_vars

----------------------------------------------------------------------------
\* vectorstore/pinecone_db.py: one PineconeDB gateway, a caller making one
\* call after another on it

\* records a caller upserts: two of them under one id
VectorPool ==
    { StoredRecord("A", 1, 1, 0, <<1>>),
      StoredRecord("A", 1, 1, 0, <<2>>),
      StoredRecord("A", 2, 1, 1, <<3>>) }

VectorLists == UNION {[1..n -> VectorPool] : n \in 0..MaxVectors}

\* batch_size: the default and what a caller passes
BatchSizes == {1, 2, UPSERT_BATCH_SIZE}

BatchAtOneMore(vectors, i, batch_size) == PySlice(vectors, i, i + batch_size + 1)
\* batch = vectors[i:i + batch_size]
BatchAt(vectors, i, batch_size) == PySlice(vectors, i, i + batch_size)

\* the gateway is between two calls; a caller whose call raised makes no other
GatewayReady == gw_pc = "idle"

\* upsert_vectors(vectors, batch_size): entry
UpsertVectorsCall ==
    /\ GatewayReady
    /\ \E vectors \in VectorLists, batch_size \in BatchSizes :
          /\ gw_vectors' = vectors
          /\ gw_batch_size' = batch_size
    /\ gw_i' = 0
    /\ gw_log' = <<>>
    /\ gw_index0' = index
    /\ gw_error' = ""
    /\ gw_pc' = "upsert"
    /\ UNCHANGED <<gwOthers, index, gw_last, gw_populated>>

\* for i in range(0, len(vectors), batch_size): index.upsert(vectors[i:i + batch_size])
UpsertVectorsBatch ==
    /\ gw_pc = "upsert"
    /\ gw_i < Len(gw_vectors)
    /\ LET batch == BatchAt(gw_vectors, gw_i, gw_batch_size)
       IN  /\ index' = UpsertBatch(index, batch)
           /\ gw_log' = Append(gw_log, [batch |-> batch, ok |-> TRUE])
    /\ gw_i' = gw_i + gw_batch_size
    /\ gw_populated' = <<>>
    /\ UNCHANGED <<gwOthers, gw_pc, gw_vectors, gw_batch_size, gw_index0, gw_error,
                   gw_last>>

\* index.upsert raises: the loop is left, the error reaches the caller
UpsertVectorsBatchRaises ==
    /\ gw_pc = "upsert"
    /\ gw_i < Len(gw_vectors)
    /\ LET batch == BatchAt(gw_vectors, gw_i, gw_batch_size)
       IN  gw_log' = Append(gw_log, [batch |-> batch, ok |-> FALSE])
    /\ gw_error' = "ServiceError"
    /\ gw_pc' = "raised"
    /\ gw_last' = "failed upsert"
    /\ UNCHANGED <<gwOthers, index, gw_vectors, gw_batch_size, gw_i, gw_index0,
                   gw_populated>>

\* the loop ends, upsert_vectors returns
UpsertVectorsReturn ==
    /\ gw_pc = "upsert"
    /\ gw_i >= Len(gw_vectors)
    /\ gw_pc' = "idle"
    /\ gw_last' = IF Len(gw_vectors) > 0 THEN "upsert" ELSE gw_last
    /\ UNCHANGED <<gwOthers, index, gw_vectors, gw_batch_size, gw_i, gw_log, gw_index0,
                   gw_error, gw_populated>>

\* delete_all()
DeleteAllCall ==
    /\ GatewayReady
    /\ index' = DeleteAll(index)
    /\ gw_last' = "delete_all"
    /\ gw_populated' = <<>>
    /\ gw_error' = ""
    /\ gw_pc' = "idle"
    /\ UNCHANGED <<gwOthers, gw_vectors, gw_batch_size, gw_i, gw_log, gw_index0>>

\* delete_all(): index.delete raises
DeleteAllRaises ==
    /\ GatewayReady
    /\ gw_error' = "ServiceError"
    /\ gw_pc' = "raised"
    /\ UNCHANGED <<gwOthers, index, gw_vectors, gw_batch_size, gw_i, gw_log, gw_index0,
                   gw_last, gw_populated>>

\* check_if_populated(): the answer the caller gets
CheckIfPopulatedCall ==
    /\ GatewayReady
    /\ gw_populated = <<>>
    /\ gw_populated' = <<CheckIfPopulated(index)>>
    /\ UNCHANGED <<gwOthers, index, gw_pc, gw_vectors, gw_batch_size, gw_i, gw_log,
                   gw_index0, gw_error, gw_last>>

InitGateway ==
    /\ pinecone_key = TRUE
    /\ groq_key = TRUE
    /\ chunk_size = CHUNK_SIZE
    /\ chunk_overlap = CHUNK_OVERLAP
    /\ CtIdle
    /\ SegIdle
    /\ AnsIdle
    /\ IngIdle
    /\ QryIdle
    /\ SuIdle
    /\ index \in {{}, {StoredRecord("A", 2, 1, 1, <<3>>)}}
    /\ gw_pc = "idle"
    /\ gw_vectors = <<>>
    /\ gw_batch_size = 0
    /\ gw_i = 0
    /\ gw_log = <<>>
    /\ gw_index0 = index
    /\ gw_error = ""
    /\ gw_last = "none"
    /\ gw_populated = <<>>

NextGateway ==
    \/ UpsertVectorsCall
    \/ UpsertVectorsBatch
    \/ UpsertVectorsBatchRaises
    \/ UpsertVectorsReturn
    \/ DeleteAllCall
    \/ DeleteAllRaises
    \/ CheckIfPopulatedCall

SpecGateway == InitGateway /\ [][NextGateway]_vars

----------------------------------------------------------------------------
\* PineconeDB.__init__ / _setup_index against the Pinecone service.  The
\* service holds the index under Config.PINECONE_INDEX_NAME, or not; an index
\* it has created is first initializing, then ready, and only a ready index
\* answers queries.  How long it stays initializing is the service's matter.

Gateways == 1..MaxGateways

\* existing_indexes = [idx.name for idx in self.pc.list_indexes()]
ListIndexes(g) ==
    /\ su_pc[g] = "start"
    /\ su_existing' = [su_existing EXCEPT ![g] = (svc_index # "absent")]
    /\ su_pc' = [su_pc EXCEPT ![g] = "listed"]
    /\ UNCHANGED <<suOthers, svc_index, svc_creates, su_created, su_query>>

\* if self.index_name not in existing_indexes: self.pc.create_index(...)
\* The call returns once the service has accepted it; the index it leaves is
\* initializing, or already ready
CreateIndex(g) ==
    /\ su_pc[g] = "listed"
    /\ ~su_existing[g]
    /\ svc_index = "absent"
    /\ svc_index' \in {"initializing", "ready"}
    /\ svc_creates' = svc_creates + 1
    /\ su_created' = [su_created EXCEPT ![g] = TRUE]
    /\ su_pc' = [su_pc EXCEPT ![g] = "sleep"]
    /\ UNCHANGED <<suOthers, su_existing, su_query>>

\* create_index of a name the service has come to hold since the listing: the
\* service refuses, the error leaves _setup_index
CreateIndexRaises(g) ==
    /\ su_pc[g] = "listed"
    /\ ~su_existing[g]
    /\ svc_index # "absent"
    /\ su_pc' = [su_pc EXCEPT ![g] = "failed"]
    /\ UNCHANGED <<suOthers, svc_index, svc_creates, su_existing, su_created, su_query>>

\* time.sleep(10)
Sleep(g) ==
    /\ su_pc[g] = "sleep"
    /\ su_pc' = [su_pc EXCEPT ![g] = "connect"]
    /\ UNCHANGED <<suOthers, svc_index, svc_creates, su_existing, su_created, su_query>>

\* the name was listed: nothing is created, nothing is waited for
SkipCreate(g) ==
    /\ su_pc[g] = "listed"
    /\ su_existing[g]
    /\ su_pc' = [su_pc EXCEPT ![g] = "connect"]
    /\ UNCHANGED <<suOthers, svc_index, svc_creates, su_existing, su_created, su_query>>

\* self.index = self.pc.Index(self.index_name); _setup_index returns
Connect(g) ==
    /\ su_pc[g] = "connect"
    /\ su_pc' = [su_pc EXCEPT ![g] = "connected"]
    /\ UNCHANGED <<suOthers, svc_index, svc_creates, su_existing, su_created, su_query>>

\* the first query through the gateway: answered by a ready index only
FirstQuery(g) ==
    /\ su_pc[g] = "connected"
    /\ su_query[g] = "none"
    /\ su_query' = [su_query EXCEPT ![g] = IF svc_index = "ready" THEN "answered"
                                          ELSE "not ready"]
    /\ UNCHANGED <<suOthers, svc_index, svc_creates, su_pc, su_existing, su_created>>

\* the service: the index becomes ready
IndexBecomesReady ==
    /\ svc_index = "initializing"
    /\ svc_index' = "ready"
    /\ UNCHANGED <<suOthers, svc_creates, su_pc, su_existing, su_created, su_query>>

InitSetup ==
    /\ pinecone_key = TRUE
    /\ groq_key = TRUE
    /\ chunk_size = CHUNK_SIZE
    /\ chunk_overlap = CHUNK_OVERLAP
    /\ CtIdle
    /\ SegIdle
    /\ AnsIdle
    /\ IngIdle
    /\ QryIdle
    /\ GwIdle
    /\ index = {}
    /\ svc_index \in {"absent", "ready"}
    /\ svc_creates = 0
    /\ su_pc = [g \in Gateways |-> "start"]
    /\ su_existing = [g \in Gateways |-> FALSE]
    /\ su_created = [g \in Gateways |-> FALSE]
    /\ su_query = [g \in Gateways |-> "none"]

NextSetup ==
    \/ \E g \in Gateways : ListIndexes(g)
    \/ \E g \in Gateways : CreateIndex(g)
    \/ \E g \in Gateways : CreateIndexRaises(g)
    \/ \E g \in Gateways : Sleep(g)
    \/ \E g \in Gateways : SkipCreate(g)
    \/ \E g \in Gateways : Connect(g)
    \/ \E g \in Gateways : FirstQuery(g)
    \/ IndexBecomesReady

SpecSetup == InitSetup /\ [][NextSetup]_vars

----------------------------------------------------------------------------
\* Properties of the segmenter

\* The window W and the step S of the configuration, in words
WindowWords == (chunk_size * 3) \div 4
StepWords   == WindowWords - ((chunk_overlap * 3) \div 4)

CeilDiv(a, b) == (a + b - 1) \div b

\* C1: for a paragraph of L words, with 0 < S < W, _chunk_text returns
\* ceil((L - W) / S) + 1 chunks when L > W and exactly one chunk when L <= W.
C1_ChunkCount ==
    (ct_pc = "returned" /\ 0 < StepWords /\ StepWords < WindowWords)
        => Len(ct_chunks) =
               IF Len(ct_words) > WindowWords
               THEN CeilDiv(Len(ct_words) - WindowWords, StepWords) + 1
               ELSE 1

\* The chunks of seg_chunks cut from paragraph n of the page numbered page_num
ChunksOf(page_num, n) ==
    {c \in 1..Len(seg_chunks) :
        /\ seg_chunks[c].metadata.page = page_num
        /\ seg_chunks[c].metadata.paragraph = n}

WordCount(paragraph) == Len(SelectSeq(paragraph, LAMBDA c : c > 0))

RemoveAt(seq, i) == SubSeq(seq, 1, i - 1) \o SubSeq(seq, i + 1, Len(seq))

\* C2: when create_chunks returns, every paragraph of at least 20 words has
\* at least one chunk and every paragraph of fewer than 20 words has none; a
\* page without a paragraph of 20 words has no chunk, and create_chunks on
\* the pages without it returns the same chunks.
C2_ParagraphThreshold ==
    seg_pc = "done" =>
        \A p \in 1..Len(seg_pages) :
            LET paragraphs == SplitIntoParagraphs(seg_pages[p].text)
                page_num   == seg_pages[p].page_number
            IN  /\ \A n \in 1..Len(paragraphs) :
                       IF WordCount(paragraphs[n]) >= 20
                       THEN ChunksOf(page_num, n) # {}
                       ELSE ChunksOf(page_num, n) = {}
                /\ (\A n \in 1..Len(paragraphs) : WordCount(paragraphs[n]) < 20)
                       => /\ \A c \in 1..Len(seg_chunks) :
                                 seg_chunks[c].metadata.page # page_num
                          /\ CreateChunks(RemoveAt(seg_pages, p), BookName,
                                          chunk_size, chunk_overlap) = seg_chunks

\* C2's case: a returned run over two loaded pages, one with a paragraph of
\* exactly 20 words (chunked) and one whose paragraphs are all shorter
C2_Witness ==
    /\ seg_pc = "done"
    /\ Len(seg_pages) = 2
    /\ seg_chunks # <<>>
    /\ \E p \in 1..2 :
           \E n \in 1..Len(SplitIntoParagraphs(seg_pages[p].text)) :
               WordCount(SplitIntoParagraphs(seg_pages[p].text)[n]) = 20
    /\ \E p \in 1..2 :
           \A n \in 1..Len(SplitIntoParagraphs(seg_pages[p].text)) :
               WordCount(SplitIntoParagraphs(seg_pages[p].text)[n]) < 20

\* The chunks with the overlap removed: the first chunk whole, every later
\* chunk without its first ov words, in chunk order
RECURSIVE Reconstruct(_, _, _)
Reconstruct(chunks, k, ov) ==
    IF k > Len(chunks) THEN <<>>
    ELSE LET w == Words(chunks[k])
         IN  (IF k = 1 THEN w ELSE SubSeq(w, ov + 1, Len(w)))
             \o Reconstruct(chunks, k + 1, ov)

\* C3: with 0 < S < W, the chunks _chunk_text returns, the overlap of W - S
\* words removed, concatenate to the paragraph's word sequence.
C3_RoundTrip ==
    (ct_pc = "returned" /\ 0 < StepWords /\ StepWords < WindowWords)
        => Reconstruct(ct_chunks, 1, WindowWords - StepWords) = ct_words

\* C3's case: a paragraph cut into at least three overlapping windows
C3_Witness ==
    /\ ct_pc = "returned"
    /\ 0 < StepWords
    /\ StepWords < WindowWords
    /\ Len(ct_chunks) >= 3
    /\ Len(ct_words) > WindowWords

\* C4: under a configuration with CHUNK_OVERLAP >= CHUNK_SIZE no run of
\* _chunk_text ever starts: the configuration is rejected first.
C4_DegenerateConfigRejected ==
    chunk_overlap >= chunk_size => ct_pc \notin {"loop", "returned"}

----------------------------------------------------------------------------
\* Properties of the answer composer

LowerChar(c) == CASE c = "M" -> "m" [] c = "I" -> "i" [] OTHER -> c

\* The words of a document text: its characters between the blanks
RECURSIVE TextWords(_)
TextWords(text) ==
    LET sp == {i \in 1..Len(text) : text[i] = " "}
    IN  IF sp = {} THEN (IF text = <<>> THEN <<>> ELSE <<text>>)
        ELSE LET m == CHOOSE i \in sp : \A j \in sp : i <= j
             IN  (IF m = 1 THEN <<>> ELSE <<SubSeq(text, 1, m - 1)>>)
                 \o TextWords(SubSeq(text, m + 1, Len(text)))

\* The deduplication key: the first 50 words, lowercase, white space normalized
DedupKey(text) ==
    LET w == TextWords([i \in 1..Len(text) |-> LowerChar(text[i])])
    IN  SubSeq(w, 1, Min(Len(w), 50))

\* C5: the documents that reach the prompt context and the references have
\* pairwise distinct deduplication keys, each is the first document of docs
\* with its key, and at most 10 reach the context.
C5_ContextDeduplicated ==
    ans_pc \in {"primary", "fallback", "done", "degraded"} =>
        LET context == prompt[1].context
        IN  /\ Len(context) <= 10
            /\ \A i, j \in 1..Len(context) :
                   DedupKey(context[i].text) = DedupKey(context[j].text) => i = j
            /\ \A i \in 1..Len(context) :
                   \E k \in 1..Len(docs) :
                       /\ docs[k].text = context[i].text
                       /\ \A m \in 1..(k - 1) :
                              DedupKey(docs[m].text) # DedupKey(docs[k].text)
            /\ ans_pc \in {"done", "degraded"} =>
                   \A i, j \in 1..Len(result.references) :
                       DedupKey(result.references[i].summary)
                           = DedupKey(result.references[j].summary) => i = j

C7_ReferencesSurvive ==
    ans_pc \in {"done", "degraded"} =>
        /\ docs # <<>> => result.references # <<>>
        /\ Len(result.references) <= Len(docs)
        /\ \A i \in 1..Len(result.references) :
               /\ result.references[i].book = docs[i].book
               /\ result.references[i].page = docs[i].page
               /\ result.references[i].paragraph = docs[i].paragraph

\* C7's case: both models failed on a request with documents
C7_Witness ==
    /\ ans_pc = "degraded"
    /\ Len(docs) > TOP_REFERENCES
    /\ Len(result.references) = TOP_REFERENCES

\* C8: the service is called at most twice per request, first the primary
\* model, the fallback model only after the primary call failed and the
\* primary model never again; the request ends done after a successful call
\* and degraded after two failed ones.
C8_GenerationStateMachine ==
    /\ ans_pc \in {"idle", "primary", "fallback", "done", "degraded"}
    /\ Len(calls) <= 2
    /\ Len(calls) >= 1 => calls[1].model = GROQ_MODEL_PRIMARY
    /\ Len(calls) = 2 =>
           /\ ~calls[1].ok
           /\ calls[2].model = GROQ_MODEL_FALLBACK
           /\ calls[2].model # GROQ_MODEL_PRIMARY
    /\ ans_pc = "primary" => calls = <<>>
    /\ ans_pc = "fallback" => Len(calls) = 1 /\ ~calls[1].ok
    /\ ans_pc = "done" => calls # <<>> /\ calls[Len(calls)].ok
    /\ ans_pc = "degraded" => Len(calls) = 2 /\ ~calls[2].ok

\* C8's case: a request answered by the fallback model
C8_Witness ==
    /\ ans_pc = "done"
    /\ Len(calls) = 2
    /\ calls[2].ok

----------------------------------------------------------------------------
\* Properties of ingestion and retrieval

\* C9: a run in which load_pdf failed on a missing, oversized or unparseable
\* file leaves the records of the index as they were before the run.
C9_InputErrorLeavesIndex ==
    (ing_pc = "failed" /\ ing_error \in InputErrors) => index = ing_index0

\* C10 as claimed: a Retriever is constructed only on a populated index, and
\* retrieve returns only when the index held a record at the call.
C10_NeverReturnsFromEmptyIndex ==
    /\ r_pc = "constructed" => r_count > 0
    /\ q_pc = "returned" => q_count > 0

\* C10 as amended: RAGRetriever() raises exactly when check_if_populated
\* reports no record at construction; retrieve makes no check of its own and
\* returns the empty list from an index that holds no record.
C10_FailsFastAtConstruction ==
    /\ r_pc = "constructed" => r_count > 0
    /\ r_pc = "failed" => r_count = 0
    /\ (q_pc = "returned" /\ q_count = 0) => results = <<>>

\* C10's case: a constructed Retriever whose retrieve returned the empty list
\* from an index emptied after construction
C10_Witness ==
    /\ r_pc = "constructed"
    /\ q_pc = "returned"
    /\ q_count = 0
    /\ results = <<>>

----------------------------------------------------------------------------
\* C11: on a gateway used call after call, check_if_populated answers false
\* when the last mutating call was delete_all, true when it was an
\* upsert_vectors of at least one record that returned, and in every case
\* true exactly when the index holds a record.
C11_PopulatedAfterLastOperation ==
    gw_populated # <<>> =>
        /\ gw_populated[1] = (Cardinality(index) > 0)
        /\ gw_last = "delete_all" => gw_populated[1] = FALSE
        /\ gw_last = "upsert" => gw_populated[1] = TRUE

\* delete_all after an upsert that stored records, then the check
C11_Witness ==
    /\ gw_last = "delete_all"
    /\ gw_populated = <<FALSE>>
    /\ \E k \in 1..Len(gw_log) : gw_log[k].ok

----------------------------------------------------------------------------
\* w is a run of consecutive words of pw
IsWindow(w, pw) ==
    /\ Len(w) > 0
    /\ \E a \in 0..(Len(pw) - Len(w)) : SubSeq(pw, a + 1, a + Len(w)) = w

\* the words of every paragraph of the pages: [page position][ordinal]
ParagraphWords(pages) ==
    [p \in 1..Len(pages) |->
        LET paragraphs == SplitIntoParagraphs(pages[p].text)
        IN  [n \in 1..Len(paragraphs) |-> Words(paragraphs[n])]]

\* C12: when create_chunks returns, chunk c (from 1) has chunk_id c - 1, no
\* two chunks have one id string, and the text of every chunk is cut from
\* exactly one paragraph of the loaded pages: the one whose page number and
\* 1-based ordinal on its page are the chunk's page and paragraph metadata;
\* the chunks come in the order of the pages and of the paragraphs.
C12_ChunkIndexAndProvenance ==
    seg_pc = "done" =>
        /\ \A c \in 1..Len(seg_chunks) : seg_chunks[c].metadata.chunk_id = c - 1
        /\ \A c, d \in 1..Len(seg_chunks) : c # d => seg_chunks[c].id # seg_chunks[d].id
        /\ LET pw == ParagraphWords(seg_pages)
           IN  \A c \in 1..Len(seg_chunks) :
                   LET w    == Words(seg_chunks[c].text)
                       from == UNION {{<<p, n>> : n \in {m \in DOMAIN pw[p] : IsWindow(w, pw[p][m])}} :
                                         p \in DOMAIN pw}
                   IN  /\ Cardinality(from) = 1
                       /\ \A pn \in from :
                              /\ seg_chunks[c].metadata.page = seg_pages[pn[1]].page_number
                              /\ seg_chunks[c].metadata.paragraph = pn[2]
                              /\ seg_chunks[c].metadata.book = BookName
        /\ \A c, d \in 1..Len(seg_chunks) :
               c < d => \/ seg_chunks[c].metadata.page < seg_chunks[d].metadata.page
                        \/ /\ seg_chunks[c].metadata.page = seg_chunks[d].metadata.page
                           /\ seg_chunks[c].metadata.paragraph <= seg_chunks[d].metadata.paragraph

\* a returned run with chunks of two pages, one paragraph cut into several
C12_Witness ==
    /\ seg_pc = "done"
    /\ \E c, d \in 1..Len(seg_chunks) :
           seg_chunks[c].metadata.page # seg_chunks[d].metadata.page
    /\ \E c, d \in 1..Len(seg_chunks) :
           /\ c # d
           /\ seg_chunks[c].metadata.page = seg_chunks[d].metadata.page
           /\ seg_chunks[c].metadata.paragraph = seg_chunks[d].metadata.paragraph

----------------------------------------------------------------------------
\* the operator's answer is yes, in any letter case
AnsweredYes(reply) == reply \in {"yes", "YES"}

\* the index operations the run has invoked
Invoked(op) == \E k \in 1..Len(ing_calls) : ing_calls[k] = op

\* C13: in a run of the ingestion entry point, delete_all is invoked only
\* with --rebuild given and the prompt answered yes, and then before any
\* upsert; with --rebuild and any other answer the run ends with no
\* delete_all, no upsert and the index as it was; without --rebuild
\* delete_all is never invoked.
C13_RebuildGated ==
    /\ Invoked("delete_all") => ing_args.rebuild /\ AnsweredYes(ing_args.reply)
    /\ \A k \in 1..Len(ing_calls) : ing_calls[k] = "delete_all" => k = 1
    /\ (ing_args.rebuild /\ ing_pc \notin {"main", "confirm"} /\ ~AnsweredYes(ing_args.reply))
           => /\ ing_pc = "cancelled"
              /\ ing_calls = <<>>
              /\ index = ing_index0
    /\ ing_pc = "cancelled" => ing_args.rebuild /\ ~AnsweredYes(ing_args.reply)
    /\ ~ing_args.rebuild => ~Invoked("delete_all")

\* --rebuild answered "no" on an index that holds records
C13_Witness ==
    /\ ing_pc = "cancelled"
    /\ ing_args.reply = "no"
    /\ index # {}

----------------------------------------------------------------------------
\* the records of the batches the index has taken, in the order sent
RECURSIVE Applied(_, _)
Applied(log, k) ==
    IF k > Len(log) THEN <<>>
    ELSE (IF log[k].ok THEN log[k].batch ELSE <<>>) \o Applied(log, k + 1)

\* an upsert_vectors call is running or was the last call to change the index
UpsertInEffect == gw_pc = "upsert" \/ gw_last \in {"upsert", "failed upsert"}

\* C14: the k-th index.upsert of an upsert_vectors call is given records
\* (k-1)*batch_size+1 .. k*batch_size of the input (fewer in the last batch),
\* in input order; only the last upload made can have failed, and then the
\* call has ended with the error and nothing more is sent; a call that
\* returned has sent every batch; the index holds, for every id among the
\* records of the batches it has taken, the last such record of that id, and
\* its other records are those it held before the call.
C14_BatchedUpsert ==
    LET n    == Len(gw_vectors)
        bs   == gw_batch_size
        sent == Applied(gw_log, 1)
    IN  /\ \A k \in 1..Len(gw_log) :
               /\ gw_log[k].batch = SubSeq(gw_vectors, (k - 1) * bs + 1, Min(k * bs, n))
               /\ Len(gw_log[k].batch) >= 1
               /\ Len(gw_log[k].batch) <= bs
               /\ k < Len(gw_log) => gw_log[k].ok
        /\ (gw_log # <<>> /\ ~gw_log[Len(gw_log)].ok)
               <=> (gw_last = "failed upsert" /\ gw_pc = "raised" /\ gw_error = "ServiceError")
        /\ (gw_pc = "idle" /\ bs > 0)
               => Len(gw_log) = CeilDiv(n, bs) /\ Len(sent) = n
        /\ UpsertInEffect =>
               /\ \A i \in 1..Len(sent) :
                      (\A j \in (i + 1)..Len(sent) : sent[j].id # sent[i].id)
                          => sent[i] \in index
               /\ \A r \in index :
                      \/ \E i \in 1..Len(sent) :
                             /\ sent[i] = r
                             /\ \A j \in (i + 1)..Len(sent) : sent[j].id # r.id
                      \/ /\ r \in gw_index0
                         /\ \A i \in 1..Len(sent) : sent[i].id # r.id

\* three batches of one record: the first replaces a record of its id, the
\* second fails, the third is never sent
C14_Witness ==
    /\ gw_pc = "raised"
    /\ Len(gw_vectors) = 3
    /\ gw_batch_size = 1
    /\ Len(gw_log) = 2
    /\ \E r \in gw_index0 : r.id = gw_vectors[1].id /\ r # gw_vectors[1]
    /\ gw_vectors[1] \in index

----------------------------------------------------------------------------
\* C15: a retrieve that returned gives one document per match of the index,
\* in the order of the matches and with their ids, scores and metadata; they
\* are at most top_k and, the index answering best first, in non-increasing
\* score; top_k is the argument, or 5 when none was given.
C15_RetrieveAsReturned ==
    q_pc = "returned" =>
        /\ Len(results) = Len(q_matches)
        /\ \A i \in 1..Len(results) :
               /\ results[i].id = q_matches[i].id
               /\ results[i].score = QueryScore(q_query, q_matches[i])
               /\ results[i].text = q_matches[i].metadata.text
               /\ results[i].book = q_matches[i].metadata.book
               /\ results[i].page = q_matches[i].metadata.page
               /\ results[i].paragraph = q_matches[i].metadata.paragraph
        /\ Len(results) <= q_top_k
        /\ \A i, j \in 1..Len(results) : i <= j => results[i].score >= results[j].score
        /\ q_top_k = IF q_arg = <<>> THEN 5 ELSE q_arg[1]

\* top_k = 2 on an index of three records of two books: the two best, in order
C15_Witness ==
    /\ q_pc = "returned"
    /\ q_arg = <<2>>
    /\ Cardinality(index) = 3
    /\ Len(results) = 2
    /\ results[1].score > results[2].score
    /\ results[1].book # results[2].book

----------------------------------------------------------------------------
\* C16: _setup_index creates the index only when the listing did not hold
\* its name, the index is never created twice, and a _setup_index that
\* created the index has not returned, and its gateway has had no query
\* refused, unless the index is ready.
C16_CreateIfAbsentAndReady ==
    /\ svc_creates <= 1
    /\ \A g \in Gateways : su_created[g] => ~su_existing[g]
    /\ \A g \in Gateways :
           su_created[g] =>
               /\ su_pc[g] = "connected" => svc_index = "ready"
               /\ su_query[g] # "not ready"

----------------------------------------------------------------------------
\* the index as ingest_book found it: emptied by a confirmed rebuild, or as
\* it was before the run
IndexAtIngest == IF Invoked("delete_all") THEN {} ELSE ing_index0

\* C17: ingest_book invokes no upsert before every chunk has its vector;
\* until then, and in a run that load_pdf or embed_batch ended with an error,
\* the index is as ingest_book found it; once embedding is done there is one
\* record per chunk, with the chunk's id, in chunk order, however the chunks
\* fell into embedding batches; after the upload every one of them is in
\* the index and the other records of the index are those it held before.
C17_UpsertAfterAllEmbedded ==
    /\ Invoked("upsert") =>
           /\ ing_pc \notin {"main", "confirm", "load", "chunk", "embed"}
           /\ Len(all_vectors) = Len(ing_chunks)
    /\ ing_pc \in {"load", "chunk", "embed"} => index = IndexAtIngest
    /\ (ing_pc = "failed" /\ ing_error \in {"FileNotFoundError", "ValueError",
                                              "Exception", "EmbeddingError"})
           => ~Invoked("upsert") /\ index = IndexAtIngest
    /\ ing_pc \in {"upsert", "stats", "done"} =>
           /\ Len(all_vectors) = Len(ing_chunks)
           /\ \A i \in 1..Len(ing_chunks) : all_vectors[i].id = ing_chunks[i].id
    /\ ing_pc \in {"stats", "done"} =>
           /\ \A i \in 1..Len(all_vectors) : all_vectors[i] \in index
           /\ \A r \in index :
                  \/ \E i \in 1..Len(all_vectors) : all_vectors[i] = r
                  \/ r \in IndexAtIngest

\* a finished run whose chunks took more than one embedding batch
C17_Witness ==
    /\ ing_pc = "done"
    /\ Len(ing_chunks) > 64
    /\ Cardinality(index) >= Len(ing_chunks)

====
